---- MODULE Spec2Model ----
(***************************************************************************)
(* ikago-client: the entry point cmd/ikago-client/main.go.                 *)
(*                                                                         *)
(* The model follows main() statement by statement: configuration, the     *)
(* exclusive -list-devices command, parameter verification, upstream port  *)
(* randomisation, server/crypto parsing, device resolution, construction   *)
(* of pcap.Client, signal wiring and p.Open().  The signal-handling        *)
(* goroutine runs concurrently with the main goroutine.                    *)
(*                                                                         *)
(* The packages ikago/internal/{config,crypto,log,pcap} are collaborators  *)
(* of main whose code is not part of cmd/ikago-client; their results are   *)
(* modelled from the specification (ParseFilter, ParseIPPort, CryptoParse) *)
(* or as a nondeterministic choice over the results their signatures allow *)
(* (FindAllDevs, FindListenDevs, FindUpstreamDevAndGatewayDev, Open).      *)
(*                                                                         *)
(* Texts (a filter, the server, the -f argument) are sequences of tokens.  *)
(* Signals are modelled from signal.Notify on; a signal that arrives       *)
(* before registration takes the runtime's default disposition and is not  *)
(* part of this model.                                                     *)
(***************************************************************************)
EXTENDS Integers, Sequences, FiniteSets, TLC

VARIABLES
    args,        \* the command-line flags (main.go:20-29)
    file,        \* the content of the configuration file named by -c
    cfg,         \* *config.Config
    filters,     \* []pcap.Filter
    serverOK,    \* pcap.ParseIPPort(cfg.Server) succeeded
    cryptoOK,    \* crypto.Parse(cfg.Method, cfg.Password) succeeded
    listenDevs,  \* number of listen devices found
    upDev,       \* upDev != nil
    gatewayDev,  \* gatewayDev != nil
    p,           \* pcap.Client
    calls,       \* collaborator calls made so far, in order
    errs,        \* the calls that returned an error
    pc,          \* position of the main goroutine
    hpc,         \* position of the signal-handling goroutine
    notified,    \* signal.Notify(sig, SIGINT, SIGTERM) has been called
    sigQueue,    \* number of signals buffered in the channel sig
    delivered,   \* SIGINT/SIGTERM delivered to the process since Notify
    received,    \* values the handler goroutine received from sig
    exit         \* how the process ended, "none" while it runs

vars == <<args, file, cfg, filters, serverOK, cryptoOK, listenDevs, upDev,
          gatewayDev, p, calls, errs, pc, hpc, notified, sigQueue,
          delivered, received, exit>>

----------------------------------------------------------------------------
(* Bounds of the model *)

MaxFilters == 2

EdgeDraws == 2

MaxSignals == 2

(* Program constants *)

RandBase == 49152

RandSpan == 16384

PortLimit == 65536

SigChanCap == 0

DefaultUpPort == 0

----------------------------------------------------------------------------
(* Texts as token sequences *)

TAddr(a) == [k |-> "addr", v |-> a]

TNum(n) == [k |-> "num", v |-> n]

TColon == [k |-> "colon", v |-> 0]

TComma == [k |-> "comma", v |-> 0]

TSpace == [k |-> "space", v |-> 0]

TJunk == [k |-> "junk", v |-> 0]

EmptyText == << >>

TextIP(a) == <<TAddr(a)>>

TextPort(n) == <<TColon, TNum(n)>>

TextIPPort(a, n) == <<TAddr(a), TColon, TNum(n)>>

TextBad == <<TAddr(1), TColon, TJunk>>

----------------------------------------------------------------------------
(* strings.Trim(str, " "): leading and trailing spaces removed *)

RECURSIVE TrimLeft(_)
TrimLeft(t) ==
    IF t # << >> /\ Head(t) = TSpace THEN TrimLeft(Tail(t)) ELSE t

RECURSIVE TrimRight(_)
TrimRight(t) ==
    IF t # << >> /\ t[Len(t)] = TSpace
        THEN TrimRight(SubSeq(t, 1, Len(t) - 1))
        ELSE t

Trim(t) == TrimRight(TrimLeft(t))

(* strings.Split(s, ","): the pieces between commas; always at least one *)
RECURSIVE Split(_, _)
Split(s, cur) ==
    IF s = << >> THEN <<cur>>
    ELSE IF Head(s) = TComma THEN <<cur>> \o Split(Tail(s), << >>)
    ELSE Split(Tail(s), Append(cur, Head(s)))

(* splitArg: nil for the empty string, else the trimmed pieces *)
splitArg(s) ==
    IF s = EmptyText THEN << >>
    ELSE LET strs == Split(s, << >>)
         IN  [i \in DOMAIN strs |-> Trim(strs[i])]

(* What the operator types after -f: the filters separated by ", " *)
RECURSIVE JoinArg(_)
JoinArg(l) ==
    IF l = << >> THEN EmptyText
    ELSE IF Len(l) = 1 THEN l[1]
    ELSE l[1] \o <<TComma, TSpace>> \o JoinArg(Tail(l))

----------------------------------------------------------------------------
(* pcap.ParseFilter: "ip" is ByIP, ":port" is ByPort, "ip:port" is         *)
(* ByIPPort; anything else is an error.                                    *)

IsPortTok(t) == t.k = "num" /\ t.v >= 0 /\ t.v < PortLimit

ErrFilter == [type |-> "err", ip |-> 0, port |-> 0]

ParseFilter(t) ==
    IF Len(t) = 1 /\ t[1].k = "addr"
        THEN [type |-> "IP", ip |-> t[1].v, port |-> 0]
    ELSE IF Len(t) = 2 /\ t[1] = TColon /\ IsPortTok(t[2])
        THEN [type |-> "Port", ip |-> 0, port |-> t[2].v]
    ELSE IF Len(t) = 3 /\ t[1].k = "addr" /\ t[2] = TColon /\ IsPortTok(t[3])
        THEN [type |-> "IPPort", ip |-> t[1].v, port |-> t[3].v]
    ELSE ErrFilter

(* pcap.ParseIPPort: "ip:port" or an error *)
ParseIPPort(t) ==
    Len(t) = 3 /\ t[1].k = "addr" /\ t[2] = TColon /\ IsPortTok(t[3])

(* crypto.Parse: an unknown method name fails *)
CryptoParse(method) == method = "plain"

(* uint16(x) *)
ToUint16(x) == x % PortLimit

----------------------------------------------------------------------------
(* The inputs of a run *)

ExamplePort == RandBase + 48

LastPort == RandBase + RandSpan - 1

FilterTextPool ==
    { TextIP(1), TextPort(RandBase), TextPort(ExamplePort),
      TextIPPort(1, ExamplePort), TextPort(LastPort), TextBad }

PoolPorts == {RandBase, ExamplePort, LastPort}

FilterLists == UNION { [1..n -> FilterTextPool] : n \in 0..MaxFilters }

(* One ByPort filter for every port the randomisation can draw *)
CoverList == [i \in 1..RandSpan |-> TextPort(RandBase + i - 1)]

ServerTexts == { EmptyText, TextIPPort(2, 12345), TextIP(2) }

UpPortInputs == { -1, DefaultUpPort, ExamplePort, PortLimit }

Contents ==
    [Method : {"plain", "bogus"}, UpPort : UpPortInputs,
     Filters : FilterLists, Server : ServerTexts]
    \cup
    [Method : {"plain"}, UpPort : {DefaultUpPort},
     Filters : {CoverList}, Server : {TextIPPort(2, 12345)}]

DefaultContent ==
    [Method |-> "plain", UpPort |-> DefaultUpPort, Filters |-> << >>,
     Server |-> EmptyText]

NilCfg == [Method |-> "", UpPort |-> 0, Filters |-> << >>, Server |-> EmptyText]

NilClient == [made |-> FALSE, Filters |-> << >>, UpPort |-> 0]

(* The flags: with -c the configuration comes from the file and the other  *)
(* flags keep their defaults; a list as long as CoverList comes from a     *)
(* file, in a run without -list-devices that leaves the port to main.      *)
Init ==
    /\ \E ld \in BOOLEAN, c \in Contents :
          \/ /\ Len(c.Filters) <= MaxFilters
             /\ args = [ListDevs |-> ld, Config |-> FALSE, Method |-> c.Method,
                        UpPort |-> c.UpPort, Filters |-> JoinArg(c.Filters),
                        Server |-> c.Server]
             /\ file = DefaultContent
          \/ /\ Len(c.Filters) > MaxFilters => ~ld
             /\ args = [ListDevs |-> ld, Config |-> TRUE,
                        Method |-> DefaultContent.Method,
                        UpPort |-> DefaultContent.UpPort,
                        Filters |-> EmptyText, Server |-> EmptyText]
             /\ file = c
    /\ cfg = NilCfg
    /\ filters = << >>
    /\ serverOK = FALSE
    /\ cryptoOK = FALSE
    /\ listenDevs = 0
    /\ upDev = FALSE
    /\ gatewayDev = FALSE
    /\ p = NilClient
    /\ calls = << >>
    /\ errs = {}
    /\ pc = "config"
    /\ hpc = "none"
    /\ notified = FALSE
    /\ sigQueue = 0
    /\ delivered = 0
    /\ received = 0
    /\ exit = "none"

----------------------------------------------------------------------------
(* Helpers of the actions *)

inVars == <<args, file>>

resVars == <<serverOK, cryptoOK, listenDevs, upDev, gatewayDev>>

sigVars == <<hpc, notified, sigQueue, delivered, received>>

Running == exit = "none"

(* log.Fatalln: the message is printed and the process exits non-zero *)
Fatal == exit' = "fatal" /\ pc' = "done"

Goto(l) == pc' = l /\ UNCHANGED exit

Min(S) == CHOOSE x \in S : \A y \in S : x <= y

Called(f) == \E i \in DOMAIN calls : calls[i] = f

(* r.Intn(n): a value of 0..n-1.  The draws followed are the EdgeDraws     *)
(* lowest, the EdgeDraws highest and those that land on a port of the      *)
(* filter pool.                                                            *)
Intn(n) ==
    (0..(n - 1)) \cap
        ((0..(EdgeDraws - 1)) \cup ((n - EdgeDraws)..(n - 1))
            \cup { q - RandBase : q \in PoolPorts })

RandomUpPort_Wide == { RandBase + d : d \in Intn(RandSpan + 1) }

(* 49152 + r.Intn(16384) *)
RandomUpPort == { RandBase + d : d \in Intn(RandSpan) }

PortInFilters_FirstOnly(fs, port) ==
    fs # << >> /\ fs[1].type = "Port" /\ fs[1].port = ToUint16(port)

PortInFilters_NotEqual(fs, port) ==
    \E i \in DOMAIN fs : fs[i].type = "Port" /\ fs[i].port # ToUint16(port)

(* The inner loop over filters: exist is set by a ByPort filter whose Port *)
(* equals uint16(cfg.UpPort); ByIP and ByIPPort filters are skipped.       *)
PortInFilters(fs, port) ==
    \E i \in DOMAIN fs : fs[i].type = "Port" /\ fs[i].port = ToUint16(port)

(* The default case of the switch is reached for a filter of another type  *)
(* scanned before exist is set.                                            *)
UnsupportedFilter(fs, port) ==
    \E i \in DOMAIN fs :
        /\ fs[i].type \notin {"IP", "IPPort", "Port"}
        /\ \A j \in 1..(i - 1) :
              ~(fs[j].type = "Port" /\ fs[j].port = ToUint16(port))

(* if !exist { break } *)
LoopExits(exist) == ~exist

NoFilters_Negative(c) == Len(c.Filters) < 0

(* len(cfg.Filters) <= 0 *)
NoFilters(c) == Len(c.Filters) <= 0

ListDevsOutcome_NoExit(err) ==
    IF err THEN [exit |-> "fatal", pc |-> "done"]
           ELSE [exit |-> "none", pc |-> "verify_filters"]

(* After pcap.FindAllDevs: an error is fatal, else the devices are listed  *)
(* and os.Exit(0) ends the process.                                        *)
ListDevsOutcome(err) ==
    IF err THEN [exit |-> "fatal", pc |-> "done"]
           ELSE [exit |-> "listed", pc |-> "done"]

HandlerNext_ExitFirst(h) ==
    CASE h = "start"    -> "recv"
      [] h = "recv"     -> "exit"
      [] h = "close"    -> "in_close"
      [] h = "in_close" -> "exit"
      [] h = "exit"     -> "done"

(* The body of the goroutine: <-sig; p.Close(); os.Exit(0) *)
HandlerNext(h) ==
    CASE h = "start"    -> "recv"
      [] h = "recv"     -> "close"
      [] h = "close"    -> "in_close"
      [] h = "in_close" -> "exit"
      [] h = "exit"     -> "done"

----------------------------------------------------------------------------
(* The main goroutine *)

(* main.go:49-69 *)
LoadConfig ==
    /\ Running /\ pc = "config"
    /\ IF args.Config
          THEN \/ /\ errs' = errs \cup {"ParseFile"}
                  /\ Fatal
                  /\ UNCHANGED cfg
               \/ /\ cfg' = [Method |-> file.Method, UpPort |-> file.UpPort,
                             Filters |-> file.Filters, Server |-> file.Server]
                  /\ Goto("list_devices")
                  /\ UNCHANGED errs
          ELSE /\ cfg' = [Method |-> args.Method, UpPort |-> args.UpPort,
                          Filters |-> splitArg(args.Filters),
                          Server |-> args.Server]
               /\ Goto("list_devices")
               /\ UNCHANGED errs
    /\ UNCHANGED <<inVars, filters, resVars, p, calls, sigVars>>

(* main.go:71-82: -list-devices *)
ListDevices ==
    /\ Running /\ pc = "list_devices"
    /\ IF args.ListDevs
          THEN /\ calls' = Append(calls, "FindAllDevs")
               /\ \E err \in BOOLEAN :
                     /\ errs' = IF err THEN errs \cup {"FindAllDevs"} ELSE errs
                     /\ exit' = ListDevsOutcome(err).exit
                     /\ pc' = ListDevsOutcome(err).pc
          ELSE Goto("verify_filters") /\ UNCHANGED <<calls, errs>>
    /\ UNCHANGED <<inVars, cfg, filters, resVars, p, sigVars>>

(* main.go:85-87 *)
VerifyFilters ==
    /\ Running /\ pc = "verify_filters"
    /\ IF NoFilters(cfg) THEN Fatal ELSE Goto("verify_server")
    /\ UNCHANGED <<inVars, cfg, filters, resVars, p, calls, errs, sigVars>>

(* main.go:88-90 *)
VerifyServer ==
    /\ Running /\ pc = "verify_server"
    /\ IF cfg.Server = EmptyText THEN Fatal ELSE Goto("parse_filters")
    /\ UNCHANGED <<inVars, cfg, filters, resVars, p, calls, errs, sigVars>>

(* main.go:91-97: the filters before the first one that does not parse are *)
(* appended; a failure is fatal.                                           *)
ParseFilters ==
    /\ Running /\ pc = "parse_filters"
    /\ LET parsed == [i \in DOMAIN cfg.Filters |-> ParseFilter(cfg.Filters[i])]
           bad    == { i \in DOMAIN parsed : parsed[i] = ErrFilter }
       IN  IF bad # {}
              THEN /\ filters' = SubSeq(parsed, 1, Min(bad) - 1)
                   /\ errs' = errs \cup {"ParseFilter"}
                   /\ Fatal
              ELSE /\ filters' = parsed
                   /\ Goto("verify_up_port")
                   /\ UNCHANGED errs
    /\ UNCHANGED <<inVars, cfg, resVars, p, calls, sigVars>>

(* main.go:98-101 *)
VerifyUpPort ==
    /\ Running /\ pc = "verify_up_port"
    /\ IF cfg.UpPort < 0 \/ cfg.UpPort >= PortLimit
          THEN Fatal
          ELSE Goto("randomize")
    /\ UNCHANGED <<inVars, cfg, filters, resVars, p, calls, errs, sigVars>>

(* main.go:103-105: only an upstream port of 0 is randomised *)
RandomizeUpPort ==
    /\ Running /\ pc = "randomize"
    /\ Goto(IF cfg.UpPort = DefaultUpPort THEN "select" ELSE "parse_server")
    /\ UNCHANGED <<inVars, cfg, filters, resVars, p, calls, errs, sigVars>>

(* main.go:107-128: one iteration of the selection loop *)
SelectUpPort ==
    /\ Running /\ pc = "select"
    /\ \E port \in RandomUpPort :
          /\ cfg' = [cfg EXCEPT !.UpPort = port]
          /\ IF UnsupportedFilter(filters, port)
                THEN Fatal
                ELSE Goto(IF LoopExits(PortInFilters(filters, port))
                             THEN "parse_server" ELSE "select")
    /\ UNCHANGED <<inVars, filters, resVars, p, calls, errs, sigVars>>

(* main.go:130-135 *)
ParseServer ==
    /\ Running /\ pc = "parse_server"
    /\ serverOK' = ParseIPPort(cfg.Server)
    /\ IF ~ParseIPPort(cfg.Server)
          THEN errs' = errs \cup {"ParseIPPort"} /\ Fatal
          ELSE Goto("parse_crypto") /\ UNCHANGED errs
    /\ UNCHANGED <<inVars, cfg, filters, cryptoOK, listenDevs, upDev,
                   gatewayDev, p, calls, sigVars>>

(* main.go:136-148 *)
ParseCrypto ==
    /\ Running /\ pc = "parse_crypto"
    /\ cryptoOK' = CryptoParse(cfg.Method)
    /\ IF ~CryptoParse(cfg.Method)
          THEN errs' = errs \cup {"crypto.Parse"} /\ Fatal
          ELSE Goto("find_listen") /\ UNCHANGED errs
    /\ UNCHANGED <<inVars, cfg, filters, serverOK, listenDevs, upDev,
                   gatewayDev, p, calls, sigVars>>

(* main.go:151-157: an error, or a list of n devices *)
FindListenDevs ==
    /\ Running /\ pc = "find_listen"
    /\ calls' = Append(calls, "FindListenDevs")
    /\ \E err \in BOOLEAN, n \in 0..1 :
          /\ listenDevs' = n
          /\ errs' = IF err THEN errs \cup {"FindListenDevs"} ELSE errs
          /\ IF err \/ n <= 0 THEN Fatal ELSE Goto("find_upstream")
    /\ UNCHANGED <<inVars, cfg, filters, serverOK, cryptoOK, upDev,
                   gatewayDev, p, sigVars>>

(* main.go:158-170 *)
FindUpstreamDevAndGatewayDev ==
    /\ Running /\ pc = "find_upstream"
    /\ calls' = Append(calls, "FindUpstreamDevAndGatewayDev")
    /\ \E err \in BOOLEAN, u \in BOOLEAN, g \in BOOLEAN :
          /\ upDev' = u
          /\ gatewayDev' = g
          /\ errs' = IF err THEN errs \cup {"FindUpstreamDevAndGatewayDev"}
                            ELSE errs
          /\ IF err \/ (~u /\ ~g) \/ ~u \/ ~g
                THEN Fatal
                ELSE Goto("construct")
    /\ UNCHANGED <<inVars, cfg, filters, serverOK, cryptoOK, listenDevs, p,
                   sigVars>>

(* main.go:173-182 *)
Construct ==
    /\ Running /\ pc = "construct"
    /\ p' = [made |-> TRUE, Filters |-> filters, UpPort |-> ToUint16(cfg.UpPort)]
    /\ Goto("notify")
    /\ UNCHANGED <<inVars, cfg, filters, resVars, calls, errs, sigVars>>

(* main.go:185-186 *)
Notify ==
    /\ Running /\ pc = "notify"
    /\ notified' = TRUE
    /\ Goto("go")
    /\ UNCHANGED <<inVars, cfg, filters, resVars, p, calls, errs, hpc,
                   sigQueue, delivered, received>>

(* main.go:187: the go statement creates the handler goroutine *)
GoHandler ==
    /\ Running /\ pc = "go"
    /\ hpc' = "start"
    /\ Goto("open")
    /\ UNCHANGED <<inVars, cfg, filters, resVars, p, calls, errs, notified,
                   sigQueue, delivered, received>>

(* main.go:193: p.Open() is called *)
CallOpen ==
    /\ Running /\ pc = "open"
    /\ calls' = Append(calls, "Open")
    /\ Goto("in_open")
    /\ UNCHANGED <<inVars, cfg, filters, resVars, p, errs, sigVars>>

(* main.go:193-197: p.Open() returns an error (fatal) or nil (main ends)   *)
OpenReturns ==
    /\ Running /\ pc = "in_open"
    /\ \/ errs' = errs \cup {"Open"} /\ Fatal
       \/ exit' = "returned" /\ pc' = "done" /\ UNCHANGED errs
    /\ UNCHANGED <<inVars, cfg, filters, resVars, p, calls, sigVars>>

----------------------------------------------------------------------------
(* The signal-handling goroutine and the delivery of signals *)

(* os/signal delivers without blocking: the value is handed to a receiver  *)
(* waiting on the channel, else buffered if the channel has room, else     *)
(* discarded.                                                              *)
DeliverSignal ==
    /\ Running /\ notified /\ delivered < MaxSignals
    /\ delivered' = delivered + 1
    /\ IF hpc = "recv"
          THEN /\ hpc' = HandlerNext("recv")
               /\ received' = received + 1
               /\ UNCHANGED sigQueue
          ELSE IF sigQueue < SigChanCap
                  THEN sigQueue' = sigQueue + 1 /\ UNCHANGED <<hpc, received>>
                  ELSE UNCHANGED <<hpc, received, sigQueue>>
    /\ UNCHANGED <<inVars, cfg, filters, resVars, p, calls, errs, pc,
                   notified, exit>>

(* main.go:188: <-sig takes a buffered value or waits *)
HandlerWait ==
    /\ Running /\ hpc = "start"
    /\ IF sigQueue > 0
          THEN /\ sigQueue' = sigQueue - 1
               /\ received' = received + 1
               /\ hpc' = HandlerNext("recv")
          ELSE hpc' = HandlerNext("start") /\ UNCHANGED <<sigQueue, received>>
    /\ UNCHANGED <<inVars, cfg, filters, resVars, p, calls, errs, pc,
                   notified, delivered, exit>>

(* main.go:189: p.Close() is called *)
HandlerClose ==
    /\ Running /\ hpc = "close"
    /\ calls' = Append(calls, "Close")
    /\ hpc' = HandlerNext("close")
    /\ UNCHANGED <<inVars, cfg, filters, resVars, p, errs, pc, notified,
                   sigQueue, delivered, received, exit>>

(* main.go:189: p.Close() returns *)
CloseReturns ==
    /\ Running /\ hpc = "in_close"
    /\ calls' = Append(calls, "CloseReturned")
    /\ hpc' = HandlerNext("in_close")
    /\ UNCHANGED <<inVars, cfg, filters, resVars, p, errs, pc, notified,
                   sigQueue, delivered, received, exit>>

(* main.go:190: os.Exit(0) *)
HandlerExit ==
    /\ Running /\ hpc = "exit"
    /\ exit' = "signal"
    /\ hpc' = HandlerNext("exit")
    /\ UNCHANGED <<inVars, cfg, filters, resVars, p, calls, errs, pc,
                   notified, sigQueue, delivered, received>>

----------------------------------------------------------------------------

(* The statements of main up to the call of p.Open() *)
MainSteps ==
    \/ LoadConfig \/ ListDevices \/ VerifyFilters \/ VerifyServer
    \/ ParseFilters \/ VerifyUpPort \/ RandomizeUpPort \/ SelectUpPort
    \/ ParseServer \/ ParseCrypto \/ FindListenDevs
    \/ FindUpstreamDevAndGatewayDev \/ Construct \/ Notify \/ GoHandler
    \/ CallOpen

Handler == HandlerWait \/ HandlerClose \/ CloseReturns \/ HandlerExit

Next == MainSteps \/ OpenReturns \/ Handler \/ DeliverSignal

Spec == Init /\ [][Next]_vars

(* Both goroutines are scheduled; p.Open() may block for ever and signals  *)
(* need not arrive; a random draw that ends the selection loop, possible   *)
(* at every iteration, is eventually made.                                 *)
FairSpec ==
    /\ Spec
    /\ WF_vars(MainSteps)
    /\ WF_vars(Handler)
    /\ WF_vars(SelectUpPort /\ pc' # "select")

----------------------------------------------------------------------------
(* Vocabulary of the properties *)

(* The upstream port as configured, before any randomisation *)
ConfiguredUpPort == IF args.Config THEN file.UpPort ELSE args.UpPort

AutoSelect == cfg # NilCfg /\ ConfiguredUpPort = DefaultUpPort

(* main is past the randomisation block: cfg.UpPort is final *)
PortSettled ==
    \/ pc \in {"parse_server", "parse_crypto", "find_listen", "find_upstream",
               "construct", "notify", "go", "open", "in_open"}
    \/ serverOK
    \/ "ParseIPPort" \in errs

PortsOf(fs, types) == { fs[i].port : i \in { j \in DOMAIN fs : fs[j].type \in types } }

(* Every port of 49152..65535 is the port of some ByPort filter *)
Covered == Cardinality(PortsOf(filters, {"Port"}) \cap (RandBase..LastPort)) = RandSpan

(* The checks of main.go:84-101 on the configuration *)
ConfigChecksPass ==
    /\ Len(cfg.Filters) > 0
    /\ \A i \in DOMAIN cfg.Filters : ParseFilter(cfg.Filters[i]) # ErrFilter
    /\ cfg.Server # EmptyText
    /\ ConfiguredUpPort >= 0 /\ ConfiguredUpPort <= PortLimit - 1

(* The checks of main.go:130-170 *)
ResolutionPasses ==
    /\ serverOK /\ cryptoOK
    /\ Called("FindListenDevs") /\ "FindListenDevs" \notin errs
    /\ listenDevs > 0
    /\ Called("FindUpstreamDevAndGatewayDev")
    /\ "FindUpstreamDevAndGatewayDev" \notin errs
    /\ upDev /\ gatewayDev

Index(f) == Min({ i \in DOMAIN calls : calls[i] = f })

----------------------------------------------------------------------------
(* C1: when the configured upstream port is 0, the port main leaves in     *)
(* cfg.UpPort and hands to the engine is the port of no ByPort filter.     *)
C1_NoByPortCollision ==
    AutoSelect /\ PortSettled =>
        /\ cfg.UpPort \notin PortsOf(filters, {"Port"})
        /\ p.made => p.UpPort \notin PortsOf(p.Filters, {"Port"})

C1_Witness ==
    /\ AutoSelect /\ p.made
    /\ ExamplePort \in PortsOf(p.Filters, {"Port"})
    /\ p.UpPort # ExamplePort

(* C2: when the configured upstream port is 0, the selected port is the    *)
(* port of no ByPort filter and of no ByIPPort filter.                     *)
C2_NoByPortOrByIPPortCollision ==
    AutoSelect /\ PortSettled =>
        cfg.UpPort \notin PortsOf(filters, {"Port", "IPPort"})

(* C3: the UpPort handed to the engine, selected or configured, differs    *)
(* from every port of a ByPort or ByIPPort filter of the run.              *)
C3_EngineUpPortDistinct ==
    p.made => p.UpPort \notin PortsOf(p.Filters, {"Port", "IPPort"})

(* C4: every port the selection produces lies in 49152..65535, and its     *)
(* conversion to uint16 at the construction of the engine loses nothing.   *)
C4_SelectedPortInRange ==
    /\ AutoSelect /\ (PortSettled \/ (pc = "select" /\ cfg.UpPort # DefaultUpPort))
          => cfg.UpPort >= 49152 /\ cfg.UpPort <= 65535
    /\ AutoSelect /\ p.made => p.UpPort = cfg.UpPort

C4_Witness ==
    AutoSelect /\ p.made /\ p.UpPort = 65535

(* C5: the devices are resolved only after the configuration checks have   *)
(* passed, Open is called only after all the checks have passed, and a run *)
(* in which a check failed ends as a fatal error without Open.             *)
C5_OpenOnlyAfterChecks ==
    /\ Called("FindListenDevs") \/ Called("FindUpstreamDevAndGatewayDev")
          => ConfigChecksPass
    /\ Called("Open") => ConfigChecksPass /\ ResolutionPasses
    /\ ~args.ListDevs /\ exit # "none" /\ ~(ConfigChecksPass /\ ResolutionPasses)
          => exit = "fatal" /\ ~Called("Open")

C5_Witness ==
    /\ Called("Open") /\ exit = "none"
    /\ Len(cfg.Filters) = MaxFilters

(* C6: with -list-devices, a successful enumeration ends the process with  *)
(* status 0 whatever the filters and the server are, a failed one ends it  *)
(* as a fatal error, and no device is resolved nor engine made or opened.  *)
C6_ListDevicesExits ==
    args.ListDevs =>
        /\ ~Called("FindListenDevs")
        /\ ~Called("FindUpstreamDevAndGatewayDev")
        /\ ~p.made /\ ~Called("Open")
        /\ Called("FindAllDevs") =>
              exit = (IF "FindAllDevs" \in errs THEN "fatal" ELSE "listed")

C6_Witness ==
    /\ args.ListDevs /\ exit = "listed"
    /\ cfg.Filters = << >> /\ cfg.Server = EmptyText

(* C7: the process exits through the signal path only after p.Close() has  *)
(* been called and has returned.                                           *)
C7_CloseBeforeSignalExit ==
    exit = "signal" =>
        /\ received > 0
        /\ Called("Close") /\ Called("CloseReturned")
        /\ Index("Close") < Index("CloseReturned")

C7_Witness ==
    exit = "signal" /\ Called("Open")

(* C8: under fair draws the selection loop ends whenever some port of      *)
(* 49152..65535 is the port of no ByPort filter; when the ByPort filters   *)
(* cover the range the loop is never left: no engine, no fatal error.      *)
C8_SelectionTerminates ==
    /\ [](pc = "select" /\ ~Covered => <>(pc # "select"))
    /\ [][pc = "select" /\ Covered => pc' = "select" /\ exit' = "none" /\ ~p'.made]_vars

C8_Witness ==
    pc = "select" /\ Covered /\ cfg.UpPort # DefaultUpPort

(* C9: every SIGINT or SIGTERM delivered after signal.Notify eventually    *)
(* leads to p.Close() being called and the process exiting: no delivered   *)
(* signal is dropped without effect.  A run that main itself ends first    *)
(* is not held against the claim.                                          *)
C9_SignalLeadsToClose ==
    (delivered > 0) ~> (Called("Close") \/ exit # "none")

(* C10: Close is never called on an engine on which Open has not been      *)
(* called, and Open is never called after Close.                           *)
C10_LifecycleOrder ==
    Called("Close") => Called("Open") /\ Index("Open") < Index("Close")

====
